---- MODULE Spec2Model ----
(***************************************************************************)
(* QuantumProof Ops: the commit-compute-verify pipeline of app/main.py.    *)
(*                                                                         *)
(* Each element of Runs is one CLI process executing main(): it parses its *)
(* arguments, calls run_once (fingerprint, compute strategy, commitment,   *)
(* verification, run id, assembly) and exports the RunResult.  Processes   *)
(* share the wall clock and the output directory and nothing else.         *)
(*                                                                         *)
(* Abstractions.                                                           *)
(*  - Strings that the code concatenates are sequences of characters.      *)
(*  - SHA3-256 is an ideal hash: the digest of a payload is the tagged     *)
(*    payload (injective), and the integer read from its first 8 hex       *)
(*    digits is a lazily sampled random oracle `hex8` (an arbitrary but    *)
(*    fixed function of the payload).                                      *)
(*  - Floats are fixed-point numbers in thousandths; NaN is a separate     *)
(*    kind of scalar.                                                      *)
(*  - The homomorphic library is opaque: each call either raises one of    *)
(*    Errors or returns; decryption returns any of DecryptOutcomes.        *)
(*  - The millisecond timings of BenchmarkMetrics are left out; they are   *)
(*    never read by the pipeline.                                          *)
(***************************************************************************)
EXTENDS Integers, Sequences, FiniteSets, TLC

VARIABLES
    harness,            \* "cli": the program as shipped; "gate_test": verify_zk_proof may be forced to return False
    now,                \* the wall clock read by utc_now_iso()
    hex8,               \* int(stable_hash(payload)[:8], 16) for the payloads hashed so far
    files,              \* the output directory: file name -> [content, writers]
    pc,                 \* position of each process in main()
    HAS_FHE,            \* module-level flag set by the guarded import
    args,               \* parsed command line of each process
    input_fingerprint,  \* locals of run_once
    compute_result,
    mode,
    crypto_primitives,
    fhe_params,
    proof_hash,
    verified,
    run_id,
    result,             \* the RunResult returned by run_once, or None
    events,             \* per process: the calls made so far, in order
    stdout,             \* per process: the lines main() printed that the claims speak of
    exit_code           \* per process: value returned by main(), -1 while running

vars == <<harness, now, hex8, files, pc, HAS_FHE, args, input_fingerprint,
          compute_result, mode, crypto_primitives, fhe_params, proof_hash,
          verified, run_id, result, events, stdout, exit_code>>

runVars == <<input_fingerprint, compute_result, mode, crypto_primitives,
             fhe_params, proof_hash, verified>>

----------------------------------------------------------------------------
(* Bounds *)

MaxClock == 1

Runs == {"p1", "p2"}

\* "SURR" stands for a lone surrogate code point, which utf-8 cannot encode.
Inputs == { <<"a">>, <<"SURR">> }

Scenarios == { <<>>, <<"b">> }

\* Values of the 32-bit hash prefix the oracle may return.
HashPrefixValues == { 0, 60 }

\* str(e) of the exceptions the homomorphic library may raise.
Errors == { "context error", "seal error" }

\* Additive decryption noise, and decryptions unrelated to the plaintext (thousandths).
DecryptNoise == { -1 }

DecryptGarbage == { -250000, 250000 }

CircuitVersions == { "fhe-seal-v1", "fhe-seal-v2" }

----------------------------------------------------------------------------
(* Constants of the program *)

APP_VERSION == "2.0.0-SEAL-FHE"

CIRCUIT_VERSION == "fhe-seal-v1"

None == [none |-> TRUE]

NoHash == << >>

----------------------------------------------------------------------------
(* Hashing *)

\* Mutant: the payload is encoded with an error handler that never raises.
Encodable_lenient(s) == TRUE

Encodable(s) == \A i \in 1..Len(s) : s[i] # "SURR"

\* hashlib.sha3_256(payload.encode("utf-8")).hexdigest()
stable_hash(payload) == <<"sha3_256", payload>>

compute_input_fingerprint(sensitive_input) ==
    stable_hash(<<"fingerprint::">> \o sensitive_input)

\* The oracle h extended to the payloads of Q it has not been asked yet.
Oracles(h, Q) ==
    { h @@ ext : ext \in [ (Q \ DOMAIN h) -> HashPrefixValues ] }


\* int(stable_hash(payload)[:8], 16), read from the oracle h
hex_prefix_int(h, payload) == h[payload]

\* datetime.now(timezone.utc).isoformat(): one text per clock reading
utc_now_iso == <<"iso", now>>

----------------------------------------------------------------------------
(* Compute strategy *)

\* risk_reduction_percent of the fallback branches
simulated_risk(numeric_signal) == 20 + (numeric_signal % 61)

\* performance_overhead_percent of the fallback branches
simulated_overhead == 100

\* performance_overhead_percent of the homomorphic branch
real_overhead == 5000

numeric_signal(h, sensitive_input, scenario) ==
    hex_prefix_int(h, sensitive_input \o scenario) % 100

\* The dict returned when the capability is absent.
fallback_no_fhe(h, sensitive_input, scenario) ==
    [ risk_reduction_percent       |-> simulated_risk(numeric_signal(h, sensitive_input, scenario)),
      performance_overhead_percent |-> simulated_overhead,
      recommended_rollout          |-> "phased",
      fhe_enabled                  |-> FALSE ]

\* The dict returned by the except branch; e is str(e).
fallback_error(h, sensitive_input, scenario, e) ==
    [ risk_reduction_percent       |-> simulated_risk(numeric_signal(h, sensitive_input, scenario)),
      performance_overhead_percent |-> simulated_overhead,
      recommended_rollout          |-> "phased",
      fhe_enabled                  |-> FALSE,
      error                        |-> e ]

\* Credit-score range 300..850
numeric_value(h, sensitive_input) == (hex_prefix_int(h, sensitive_input) % 551) + 300

\* (x - 300.0) * 0.18181818 in thousandths (the coefficient cut to 6 digits)
affine_milli(x) == ((x - 300) * 181818) \div 1000

Num(m) == [kind |-> "num", milli |-> m]

NaN == [kind |-> "nan", milli |-> 0]

\* What decrypt()[0] may be for plaintext x: the affine image with noise, or anything.
DecryptOutcomes(x) ==
    { Num(affine_milli(x) + n) : n \in DecryptNoise }
        \cup { Num(g) : g \in DecryptGarbage } \cup { NaN }

\* min(a, b) and max(a, b) of Python on floats: the first argument unless the
\* second compares strictly smaller (larger); every comparison with NaN is false.
py_min(a, b) == IF a.kind = "num" /\ b.kind = "num" /\ b.milli < a.milli THEN b ELSE a

py_max(a, b) == IF a.kind = "num" /\ b.kind = "num" /\ b.milli > a.milli THEN b ELSE a

\* Mutant: the clamp is left out.
clamp_result_missing(x) == x

\* result = max(0.0, min(100.0, result))
clamp_result(x) == py_max(Num(0), py_min(Num(100000), x))

\* int(risk_score) of a finite float: truncation toward zero
py_int(x) == IF x.milli >= 0 THEN x.milli \div 1000 ELSE -((-x.milli) \div 1000)

\* The dict returned by the homomorphic branch.
real_result(risk_score) ==
    [ risk_reduction_percent       |-> py_int(risk_score),
      performance_overhead_percent |-> real_overhead,
      recommended_rollout          |-> "phased",
      fhe_enabled                  |-> TRUE,
      fhe_scheme                   |-> "CKKS (Microsoft SEAL)" ]

\* Every way one call of perform_fhe_computation can end: the oracle after it,
\* the returned dict and mode, and the capability calls it made.
perform_fhe_computation(h0, sensitive_input, scenario, has_fhe) ==
    IF ~has_fhe
    THEN { [ h |-> h, compute_result |-> fallback_no_fhe(h, sensitive_input, scenario),
             mode |-> "fallback-no-fhe", ev |-> << >> ]
           : h \in Oracles(h0, {sensitive_input \o scenario}) }
    ELSE
      \* FHECompute() raises
      { [ h |-> x[1], compute_result |-> fallback_error(x[1], sensitive_input, scenario, x[2]),
          mode |-> "fallback-error", ev |-> <<"FHECompute:raise">> ]
        : x \in Oracles(h0, {sensitive_input \o scenario}) \X Errors }
      \cup
      \* FHECompute() succeeds, encrypt_and_compute raises (the numeric value
      \* computed before the call is dropped, so the oracle is not asked for it)
      { [ h |-> x[1], compute_result |-> fallback_error(x[1], sensitive_input, scenario, x[2]),
          mode |-> "fallback-error", ev |-> <<"FHECompute", "encrypt_and_compute:raise">> ]
        : x \in Oracles(h0, {sensitive_input \o scenario}) \X Errors }
      \cup
      \* the homomorphic evaluation succeeds
      UNION { { [ h |-> h, compute_result |-> real_result(clamp_result(d)),
                  mode |-> "fhe-seal-homomorphic-encryption",
                  ev |-> <<"FHECompute", "encrypt_and_compute">> ]
                : d \in DecryptOutcomes(numeric_value(h, sensitive_input)) }
              : h \in Oracles(h0, {sensitive_input}) }

----------------------------------------------------------------------------
(* Commitment engine *)

\* Keys a compute_result may hold, in the order sort_keys=True emits them.
SortedResultKeys ==
    << "error", "fhe_enabled", "fhe_scheme", "performance_overhead_percent",
       "recommended_rollout", "risk_reduction_percent" >>

\* JSON text of one value of compute_result
json_scalar(key, v) ==
    CASE key = "fhe_enabled" -> <<"lit", IF v THEN "true" ELSE "false">>
      [] key \in {"performance_overhead_percent", "risk_reduction_percent"} -> <<"num", v>>
      [] OTHER -> <<"str", v>>

HasKey(d, key) == key \in DOMAIN d

\* The members of d under the given keys, as JSON text
json_members(d, keys) ==
    [ i \in 1..Len(keys) |-> <<keys[i], json_scalar(keys[i], d[keys[i]])>> ]

\* json.dumps(compute_result, sort_keys=True): the members present, in key order
json_dumps_result(d) ==
    json_members(d, SelectSeq(SortedResultKeys, LAMBDA k : HasKey(d, k)))

\* Mutant: the scenario is left out of the public inputs.
proof_payload_without_scenario(fp, cr, scenario, v) ==
    << <<"circuit_version", v>>,
       <<"claim", "computation_correctness">>,
       <<"public_inputs",
           << <<"compute_result", json_dumps_result(cr)>>,
              <<"input_fingerprint", fp>> >> >>,
       <<"security_parameter", 128>>,
       <<"type", "zero-knowledge-proof">>,
       <<"zk_system", "simulated-zkSNARK">> >>

\* json.dumps(proof_statement, sort_keys=True) for the statement built from
\* the public inputs and circuit version v
proof_payload(fp, cr, scenario, v) ==
    << <<"circuit_version", v>>,
       <<"claim", "computation_correctness">>,
       <<"public_inputs",
           << <<"compute_result", json_dumps_result(cr)>>,
              <<"input_fingerprint", fp>>,
              <<"scenario", scenario>> >> >>,
       <<"security_parameter", 128>>,
       <<"type", "zero-knowledge-proof">>,
       <<"zk_system", "simulated-zkSNARK">> >>

\* the commitment under circuit version v
commit(fp, cr, scenario, v) ==
    stable_hash(<<"zkproof::", proof_payload(fp, cr, scenario, v)>>)

\* Mutant: the statement carries the time of its generation.
generate_zk_proof_timestamped(fp, cr, scenario) ==
    stable_hash(<<"zkproof::", proof_payload(fp, cr, scenario, CIRCUIT_VERSION), utc_now_iso>>)

generate_zk_proof(fp, cr, scenario) ==
    commit(fp, cr, scenario, CIRCUIT_VERSION)

\* Mutant: the verifier recomputes the commitment under another circuit version.
verify_zk_proof_other_version(ph, fp, cr, scenario) ==
    ph = commit(fp, cr, scenario, "fhe-seal-v2")

verify_zk_proof(ph, fp, cr, scenario) ==
    ph = generate_zk_proof(fp, cr, scenario)

----------------------------------------------------------------------------
(* Run orchestrator *)

HashOnlyPrimitives == << "SHA3-256 (quantum-resistant)" >>

FhePrimitives ==
    << "FHE: CKKS (Microsoft SEAL)",
       "Zero-Knowledge Proofs (zkSNARK structure)",
       "SHA3-256 (quantum-resistant)" >>

DisabledParams == [ enabled |-> FALSE ]

\* FHECompute.get_parameters()
get_parameters ==
    [ scheme |-> "CKKS", poly_modulus_degree |-> 8192,
      security_level |-> "128-bit", library |-> "Microsoft SEAL (via TenSEAL)" ]

\* The branch of run_once that skips the second FHECompute().
takes_fallback_branch(force_fallback, has_fhe) == force_fallback \/ ~has_fhe

\* What the verification step may return: verify_zk_proof's own answer, and
\* under the gate test also a forced False.
VerifyOutcomes(answer) == IF harness = "gate_test" THEN {answer, FALSE} ELSE {answer}

\* f"run-{stable_hash(utc_now_iso())[:10]}"; the 10-digit prefix of the ideal
\* hash is taken to identify the clock reading.
make_run_id == <<"run-", stable_hash(utc_now_iso)>>

\* Mutant: the gate never raises.
gate_never_raises(v) == FALSE

\* if not verified: raise RuntimeError
gate_raises(v) == ~v

\* Mutant: the error member is dropped from the compute result on assembly.
RunResult_sanitised(rid, ts, scenario, cr, md, ph, v, fp, prims, params) ==
    [ run_id                 |-> rid,
      timestamp_utc          |-> ts,
      scenario               |-> scenario,
      compute_result         |-> [k \in (DOMAIN cr) \ {"error"} |-> cr[k]],
      risk_context           |-> "Quantum-resistant FHE + ZK proofs",
      trust_model_comparison |-> "Cryptographic verification vs traditional trust",
      benchmark              |-> [ compute_mode |-> md ],
      proof                  |-> [ proof_hash             |-> ph,
                                   verification_result    |-> v,
                                   circuit_version        |-> CIRCUIT_VERSION,
                                   input_fingerprint      |-> fp,
                                   crypto_primitives_used |-> prims,
                                   fhe_parameters         |-> params ] ]

\* The RunResult assembled at the end of run_once.
RunResult(rid, ts, scenario, cr, md, ph, v, fp, prims, params) ==
    [ run_id                 |-> rid,
      timestamp_utc          |-> ts,
      scenario               |-> scenario,
      compute_result         |-> cr,
      risk_context           |-> "Quantum-resistant FHE + ZK proofs",
      trust_model_comparison |-> "Cryptographic verification vs traditional trust",
      benchmark              |-> [ compute_mode |-> md ],
      proof                  |-> [ proof_hash             |-> ph,
                                   verification_result    |-> v,
                                   circuit_version        |-> CIRCUIT_VERSION,
                                   input_fingerprint      |-> fp,
                                   crypto_primitives_used |-> prims,
                                   fhe_parameters         |-> params ] ]

Log(r, ev) == events' = [events EXCEPT ![r] = @ \o ev]

----------------------------------------------------------------------------
(* Initial state *)

InitCommon ==
    /\ now = 0
    /\ hex8 = << >>
    /\ files = << >>
    /\ pc = [r \in Runs |-> "start"]
    /\ HAS_FHE = [r \in Runs |-> FALSE]
    /\ args = [r \in Runs |-> None]
    /\ input_fingerprint = [r \in Runs |-> NoHash]
    /\ compute_result = [r \in Runs |-> None]
    /\ mode = [r \in Runs |-> ""]
    /\ crypto_primitives = [r \in Runs |-> << >>]
    /\ fhe_params = [r \in Runs |-> None]
    /\ proof_hash = [r \in Runs |-> NoHash]
    /\ verified = [r \in Runs |-> FALSE]
    /\ run_id = [r \in Runs |-> NoHash]
    /\ result = [r \in Runs |-> None]
    /\ events = [r \in Runs |-> << >>]
    /\ stdout = [r \in Runs |-> << >>]
    /\ exit_code = [r \in Runs |-> -1]

Init == harness = "cli" /\ InitCommon

InitGate == harness = "gate_test" /\ InitCommon

----------------------------------------------------------------------------
(* Actions *)

\* The clock advances.
Tick ==
    /\ now < MaxClock
    /\ now' = now + 1
    /\ UNCHANGED <<harness, hex8, files, pc, HAS_FHE, args, runVars, run_id,
                   result, events, stdout, exit_code>>

\* Module load (the guarded import) and argument parsing of one process.
main_parse(r) ==
    /\ pc[r] = "start"
    /\ \E inp \in Inputs, scen \in Scenarios, fb \in BOOLEAN, has \in BOOLEAN :
          /\ args' = [args EXCEPT ![r] = [input |-> inp, scenario |-> scen, fallback |-> fb]]
          /\ HAS_FHE' = [HAS_FHE EXCEPT ![r] = has]
    /\ pc' = [pc EXCEPT ![r] = "run_once"]
    /\ UNCHANGED <<harness, now, hex8, files, runVars, run_id, result, events,
                   stdout, exit_code>>

\* One call of run_once: fingerprint, compute strategy, audit metadata (with
\* the second FHECompute() of the homomorphic branch), commitment,
\* verification, run id, gate and assembly.  Everything but the clock is local
\* to the process, so the call is one step; both readings of the clock (run
\* id and timestamp) are taken in it.
run_once(r) ==
    /\ pc[r] = "run_once"
    /\ LET inp  == args[r].input
           scen == args[r].scenario
       IN
       IF ~Encodable(inp)
       THEN \* payload.encode("utf-8") raises in compute_input_fingerprint
            /\ pc' = [pc EXCEPT ![r] = "except"]
            /\ Log(r, <<"compute_input_fingerprint:raise">>)
            /\ UNCHANGED <<hex8, runVars, run_id, result>>
       ELSE
         \E o \in perform_fhe_computation(hex8, inp, scen, HAS_FHE[r]) :
         \E second \in (IF takes_fallback_branch(args[r].fallback, HAS_FHE[r])
                        THEN {"none"} ELSE {"FHECompute", "FHECompute:raise"}) :
            LET fp == compute_input_fingerprint(inp)
                ph == generate_zk_proof(fp, o.compute_result, scen)
                computed == <<"compute_input_fingerprint", "perform_fhe_computation">>
                               \o o.ev
                               \o (IF second = "none" THEN << >> ELSE <<second>>)
            IN
            /\ hex8' = o.h
            /\ input_fingerprint' = [input_fingerprint EXCEPT ![r] = fp]
            /\ compute_result' = [compute_result EXCEPT ![r] = o.compute_result]
            /\ mode' = [mode EXCEPT ![r] = o.mode]
            /\ crypto_primitives' = [crypto_primitives EXCEPT ![r] =
                   IF second = "none" THEN HashOnlyPrimitives ELSE FhePrimitives]
            /\ IF second = "FHECompute:raise"
               THEN /\ pc' = [pc EXCEPT ![r] = "except"]
                    /\ Log(r, computed)
                    /\ UNCHANGED <<fhe_params, proof_hash, verified, run_id, result>>
               ELSE /\ fhe_params' = [fhe_params EXCEPT ![r] =
                           IF second = "none" THEN DisabledParams ELSE get_parameters]
                    /\ proof_hash' = [proof_hash EXCEPT ![r] = ph]
                    /\ \E v \in VerifyOutcomes(verify_zk_proof(ph, fp, o.compute_result, scen)) :
                          /\ verified' = [verified EXCEPT ![r] = v]
                          /\ run_id' = [run_id EXCEPT ![r] = make_run_id]
                          /\ IF gate_raises(v)
                             THEN /\ pc' = [pc EXCEPT ![r] = "except"]
                                  /\ Log(r, computed \o <<"generate_zk_proof", "verify_zk_proof",
                                                          "RuntimeError">>)
                                  /\ UNCHANGED result
                             ELSE /\ result' = [result EXCEPT ![r] =
                                         RunResult(make_run_id, utc_now_iso, scen,
                                                   o.compute_result, o.mode, ph, v, fp,
                                                   IF second = "none" THEN HashOnlyPrimitives
                                                                      ELSE FhePrimitives,
                                                   IF second = "none" THEN DisabledParams
                                                                      ELSE get_parameters)]
                                  /\ pc' = [pc EXCEPT ![r] = "export_json"]
                                  /\ Log(r, computed \o <<"generate_zk_proof", "verify_zk_proof",
                                                          "RunResult">>)
    /\ UNCHANGED <<harness, now, files, HAS_FHE, args, stdout, exit_code>>

\* except Exception in main: report and return 1
main_except(r) ==
    /\ pc[r] = "except"
    /\ stdout' = [stdout EXCEPT ![r] = Append(@, "ERROR")]
    /\ exit_code' = [exit_code EXCEPT ![r] = 1]
    /\ pc' = [pc EXCEPT ![r] = "done"]
    /\ UNCHANGED <<harness, now, hex8, files, HAS_FHE, args, runVars, run_id,
                   result, events>>

\* path.write_text: the file is created or replaced
write_text(fs, name, content, r) ==
    IF name \in DOMAIN fs
    THEN [fs EXCEPT ![name] = [content |-> content, writers |-> @.writers \cup {r}]]
    ELSE fs @@ (name :> [content |-> content, writers |-> {r}])

export_json(r) ==
    /\ pc[r] = "export_json"
    /\ files' = write_text(files, <<result[r].run_id, ".json">>, result[r], r)
    /\ pc' = [pc EXCEPT ![r] = "export_markdown"]
    /\ Log(r, <<"export_json">>)
    /\ UNCHANGED <<harness, now, hex8, HAS_FHE, args, runVars, run_id, result,
                   stdout, exit_code>>

\* The report of export_markdown: the fields it renders.
markdown(res) ==
    [ run_id       |-> res.run_id,
      timestamp    |-> res.timestamp_utc,
      scenario     |-> res.scenario,
      verification |-> IF res.proof.verification_result THEN "VERIFIED" ELSE "FAILED",
      primitives   |-> res.proof.crypto_primitives_used,
      fhe_parameters |-> res.proof.fhe_parameters,
      risk_score   |-> res.compute_result.risk_reduction_percent,
      fhe_overhead |-> res.compute_result.performance_overhead_percent,
      fhe_enabled  |-> res.compute_result.fhe_enabled,
      zk_proof     |-> res.proof.proof_hash,
      input_fingerprint |-> res.proof.input_fingerprint,
      app_version  |-> APP_VERSION ]

\* The rest of main after export_json: export_markdown, the closing prints
\* and return 0.
main_finish(r) ==
    /\ pc[r] = "export_markdown"
    /\ files' = write_text(files, <<result[r].run_id, ".md">>, markdown(result[r]), r)
    /\ Log(r, <<"export_markdown">>)
    /\ stdout' = [stdout EXCEPT ![r] = @ \o
          << "Computation complete",
             IF result[r].proof.verification_result
                THEN "Verification: CHECK_MARK" ELSE "Verification: CROSS_MARK" >>]
    /\ exit_code' = [exit_code EXCEPT ![r] = 0]
    /\ pc' = [pc EXCEPT ![r] = "done"]
    /\ UNCHANGED <<harness, now, hex8, HAS_FHE, args, runVars, run_id, result>>

Next ==
    \/ Tick
    \/ \E r \in Runs :
          \/ main_parse(r)
          \/ run_once(r)
          \/ main_except(r)
          \/ export_json(r)
          \/ main_finish(r)

Spec == Init /\ [][Next]_vars

SpecGate == InitGate /\ [][Next]_vars

----------------------------------------------------------------------------
(* Vocabulary of the properties *)

Called(r, e) == \E i \in 1..Len(events[r]) : events[r][i] = e

CapabilityCalls == {"FHECompute", "FHECompute:raise", "encrypt_and_compute",
                    "encrypt_and_compute:raise"}

CapabilityUsed(r) == \E e \in CapabilityCalls : Called(r, e)

CapabilityRaised(r) == Called(r, "FHECompute:raise") \/ Called(r, "encrypt_and_compute:raise")

Computed(r) == compute_result[r] # None

Simulated(r) == Computed(r) /\ ~compute_result[r].fhe_enabled

Committed(r) == proof_hash[r] # NoHash

Returned(r) == result[r] # None

Exported(r) == \E name \in DOMAIN files : r \in files[name].writers

\* run_once has ended, one way or the other
RunOnceEnded(r) == pc[r] \in {"except", "export_json", "export_markdown", "done"}

----------------------------------------------------------------------------
(* C1 *)

\* C1 (verification gate): a RunResult exists, and an export is written, only
\* after verify_zk_proof was called in that run and the verification step
\* yielded true; a run whose verification step yielded false raises, builds
\* no RunResult, writes no file, and its main returns 1.
C1_VerificationGate ==
    \A r \in Runs :
       /\ (Returned(r) \/ Exported(r)) =>
             /\ Called(r, "verify_zk_proof")
             /\ verified[r]
             /\ result[r].proof.verification_result
       /\ Exported(r) => Returned(r)
       /\ (Called(r, "verify_zk_proof") /\ ~verified[r]) =>
             /\ ~Returned(r)
             /\ ~Exported(r)
             /\ exit_code[r] # 0
             /\ pc[r] = "done" => (exit_code[r] = 1 /\ Called(r, "RuntimeError"))

\* A run whose verification was forced to fail has ended with exit code 1.
C1_Witness ==
    \E r \in Runs :
       /\ pc[r] = "done" /\ Called(r, "verify_zk_proof") /\ ~verified[r]
       /\ exit_code[r] = 1

----------------------------------------------------------------------------
(* C2 *)

\* C2 (fallback safety, as claimed): with force_fallback false and the
\* capability importable, a run in which some capability call raised does not
\* raise out of run_once: once run_once has ended it has returned a RunResult,
\* produced by the Simulated variant (fhe_enabled false).
C2_FallbackSafety ==
    \A r \in Runs :
       (/\ RunOnceEnded(r)
        /\ ~args[r].fallback /\ HAS_FHE[r]
        /\ CapabilityRaised(r))
       => /\ Returned(r)
          /\ ~result[r].compute_result.fhe_enabled

----------------------------------------------------------------------------
(* C3 *)

\* C3 (strategy selection, as claimed): with force_fallback true the compute
\* result comes from the Simulated variant and the capability is never
\* constructed or invoked; with force_fallback false and a capability that
\* works, the Real variant produces it.
C3_StrategySelection ==
    \A r \in Runs :
       Computed(r) =>
          /\ args[r].fallback =>
                (~compute_result[r].fhe_enabled /\ ~CapabilityUsed(r))
          /\ (~args[r].fallback /\ HAS_FHE[r] /\ ~CapabilityRaised(r)) =>
                compute_result[r].fhe_enabled

----------------------------------------------------------------------------
(* C4 *)

\* C4 (commitment soundness): the commitment a run generated for its
\* fingerprint, compute result and scenario verifies against those same
\* values, whenever it is checked afterwards.
C4_CommitmentSoundness ==
    \A r \in Runs :
       Committed(r) =>
          verify_zk_proof(proof_hash[r], input_fingerprint[r], compute_result[r],
                          args[r].scenario)

\* Both variants have committed, and the clock has moved since.
C4_Witness ==
    /\ now > 0
    /\ \E r \in Runs : Committed(r) /\ compute_result[r].fhe_enabled
    /\ \E r \in Runs : Committed(r) /\ "error" \in DOMAIN compute_result[r]

----------------------------------------------------------------------------
(* C5 *)

\* Fingerprints of other inputs.
OtherFingerprints(fp) ==
    { compute_input_fingerprint(i) : i \in { << >>, <<"a">>, <<"b">>, <<"a", "b">> } } \ {fp}

\* Compute results that differ from cr: one field changed, or the error
\* member added, removed or changed.
OtherResults(cr) ==
    ( { [cr EXCEPT !.risk_reduction_percent = @ + 1],
        [cr EXCEPT !.performance_overhead_percent = IF @ = 100 THEN 5000 ELSE 100],
        [cr EXCEPT !.recommended_rollout = "immediate"],
        [cr EXCEPT !.fhe_enabled = ~@] }
      \cup { [k \in (DOMAIN cr) \cup {"error"} |-> IF k = "error" THEN e ELSE cr[k]]
             : e \in Errors }
      \cup { [k \in (DOMAIN cr) \ {"error"} |-> cr[k]] } ) \ {cr}

\* run_once has just returned its RunResult to main.
JustReturned(r) == pc[r] = "export_json"

\* C5 (commitment sensitivity): with the hash injective, changing exactly one
\* of fingerprint, compute result, scenario and circuit version of the
\* commitment a run returns changes the commitment, and the old commitment
\* does not verify against the changed inputs; two runs whose public inputs
\* differ hold different commitments.
C5_CommitmentSensitivity ==
    /\ \A r \in Runs :
          (Committed(r) /\ JustReturned(r)) =>
             LET fp == input_fingerprint[r]
                 cr == compute_result[r]
                 sc == args[r].scenario
                 ph == proof_hash[r]
             IN
             /\ \A f2 \in OtherFingerprints(fp) :
                   /\ generate_zk_proof(f2, cr, sc) # ph
                   /\ ~verify_zk_proof(ph, f2, cr, sc)
             /\ \A c2 \in OtherResults(cr) :
                   /\ generate_zk_proof(fp, c2, sc) # ph
                   /\ ~verify_zk_proof(ph, fp, c2, sc)
             /\ \A s2 \in Scenarios \ {sc} :
                   /\ generate_zk_proof(fp, cr, s2) # ph
                   /\ ~verify_zk_proof(ph, fp, cr, s2)
             /\ \A v2 \in CircuitVersions \ {CIRCUIT_VERSION} :
                   commit(fp, cr, sc, v2) # ph
    /\ \A r1, r2 \in Runs :
          (/\ Committed(r1) /\ Committed(r2)
           /\ <<input_fingerprint[r1], compute_result[r1], args[r1].scenario>>
                 # <<input_fingerprint[r2], compute_result[r2], args[r2].scenario>>)
          => proof_hash[r1] # proof_hash[r2]

\* Two runs have committed to the same fingerprint and compute result under
\* different scenarios.
C5_Witness ==
    \E r1, r2 \in Runs :
       /\ Committed(r1) /\ Committed(r2)
       /\ input_fingerprint[r1] = input_fingerprint[r2]
       /\ compute_result[r1] = compute_result[r2]
       /\ args[r1].scenario # args[r2].scenario

----------------------------------------------------------------------------
(* C6 *)

\* C6 (overhead range, as claimed): every compute result of the Simulated
\* variant has performance_overhead_percent in 2..20.
C6_SimulatedOverheadRange ==
    \A r \in Runs :
       Simulated(r) => compute_result[r].performance_overhead_percent \in 2..20

----------------------------------------------------------------------------
(* C7 *)

\* C7 (risk-reduction range): risk_reduction_percent is in 20..80 in every
\* result of the Simulated variant and in 0..100 in every result of the Real
\* variant, whatever the capability decrypted to.
C7_RiskReductionRange ==
    \A r \in Runs :
       Computed(r) =>
          IF compute_result[r].fhe_enabled
          THEN compute_result[r].risk_reduction_percent \in 0..100
          ELSE compute_result[r].risk_reduction_percent \in 20..80

\* One run holds a Real result clamped to 100, the other a Simulated result
\* at the upper end of its range.
C7_Witness ==
    \E r1, r2 \in Runs :
       /\ Computed(r1) /\ compute_result[r1].fhe_enabled
       /\ compute_result[r1].risk_reduction_percent = 100
       /\ Simulated(r2)
       /\ compute_result[r2].risk_reduction_percent = 80

----------------------------------------------------------------------------
(* C8 *)

\* C8 (determinism of the Simulated variant, as claimed): two Simulated
\* results for the same (input, scenario) are equal in every field, whichever
\* path produced them, and the fingerprint depends on the input alone.
C8_SimulatedDeterminism ==
    \A r1, r2 \in Runs :
       /\ (/\ Simulated(r1) /\ Simulated(r2)
           /\ args[r1].input = args[r2].input
           /\ args[r1].scenario = args[r2].scenario)
          => compute_result[r1] = compute_result[r2]
       /\ (/\ Computed(r1) /\ Computed(r2)
           /\ args[r1].input = args[r2].input)
          => input_fingerprint[r1] = input_fingerprint[r2]

----------------------------------------------------------------------------
(* C9 *)

\* C9 (reproducible commitment under force_fallback, as claimed): two runs
\* with the same (input, scenario) and force_fallback true return RunResults
\* with equal compute_result and equal proof_hash, in whatever environments.
C9_ReproducibleUnderFallback ==
    \A r1, r2 \in Runs :
       (/\ Returned(r1) /\ Returned(r2)
        /\ args[r1].fallback /\ args[r2].fallback
        /\ args[r1].input = args[r2].input
        /\ args[r1].scenario = args[r2].scenario)
       => /\ result[r1].compute_result = result[r2].compute_result
          /\ result[r1].proof.proof_hash = result[r2].proof.proof_hash

----------------------------------------------------------------------------
(* C10 *)

\* C10 (independently keyed runs, as claimed): two runs never obtain the same
\* run_id, so every exported file has been written by one run only.
C10_DistinctRunIds ==
    /\ \A r1, r2 \in Runs :
          (r1 # r2 /\ run_id[r1] # NoHash /\ run_id[r2] # NoHash)
          => run_id[r1] # run_id[r2]
    /\ \A name \in DOMAIN files : Cardinality(files[name].writers) = 1

----------------------------------------------------------------------------
(* C11 *)

\* The proof of RunResult res is true and commits to res's own fields.
BindsOwnFields(res) ==
    /\ res.proof.verification_result
    /\ res.proof.proof_hash =
          commit(res.proof.input_fingerprint, res.compute_result, res.scenario,
                 res.proof.circuit_version)

\* run_once's RunResult has just been written to its JSON file.
JustExported(r) == pc[r] = "export_markdown"

\* C11 (exported proof binds the exported result): the RunResult that
\* run_once returns has verification_result true, carries the fingerprint of
\* the run's input, and its proof_hash is the commitment over its own
\* input_fingerprint, compute_result, scenario and circuit_version; it holds
\* the run's fields unchanged, and every exported JSON document is such a
\* RunResult and binds its own fields when it is written.
C11_ProofBindsResult ==
    /\ \A r \in Runs :
          Returned(r) =>
             /\ result[r].proof.verification_result
             /\ result[r].proof.circuit_version = CIRCUIT_VERSION
             /\ result[r].proof.input_fingerprint = compute_input_fingerprint(args[r].input)
             /\ result[r].scenario = args[r].scenario
             /\ result[r].compute_result = compute_result[r]
             /\ result[r].proof.proof_hash = proof_hash[r]
             /\ JustReturned(r) => BindsOwnFields(result[r])
             /\ JustExported(r) =>
                   /\ <<result[r].run_id, ".json">> \in DOMAIN files
                   /\ BindsOwnFields(files[<<result[r].run_id, ".json">>].content)
    /\ \A name \in DOMAIN files :
          name[2] = ".json" =>
             \E w \in files[name].writers : files[name].content = result[w]

\* A run has exported the JSON of a degraded result that records its error.
C11_Witness ==
    \E r \in Runs :
       /\ Returned(r) /\ "error" \in DOMAIN result[r].compute_result
       /\ \E name \in DOMAIN files :
             name[2] = ".json" /\ r \in files[name].writers

----------------------------------------------------------------------------
(* C12 *)

CapabilityFailures == {"FHECompute:raise", "encrypt_and_compute:raise"}

\* C12 (no automatic retries, as claimed): within one run, no call that
\* constructs or invokes the capability follows a call of it that raised.
C12_NoRetryAfterFailure ==
    \A r \in Runs :
       \A i, j \in 1..Len(events[r]) :
          (i < j /\ events[r][i] \in CapabilityFailures)
          => events[r][j] \notin CapabilityCalls

----------------------------------------------------------------------------
(* C13 *)

HasSurrogate(s) == \E i \in 1..Len(s) : s[i] = "SURR"

\* C13 (invalid input): once run_once has been entered with an input that
\* cannot be encoded, the only call made is the fingerprinting that raised:
\* no compute strategy, no capability call, no hash-derived number, no
\* commitment, no second attempt, no RunResult and no export; main returns 1.
C13_InvalidInputAtFingerprinter ==
    \A r \in Runs :
       (pc[r] \in {"except", "export_json", "export_markdown", "done"}
           /\ HasSurrogate(args[r].input))
       => /\ events[r] = <<"compute_input_fingerprint:raise">>
          /\ input_fingerprint[r] = NoHash
          /\ ~Computed(r) /\ ~Committed(r) /\ ~Returned(r) /\ ~Exported(r)
          /\ run_id[r] = NoHash
          /\ \A q \in DOMAIN hex8 : ~HasSurrogate(q)
          /\ pc[r] \in {"except", "done"}
          /\ pc[r] = "done" => exit_code[r] = 1

\* A run given an unencodable input has ended, while the other run exported.
C13_Witness ==
    \E r1, r2 \in Runs :
       /\ pc[r1] = "done" /\ HasSurrogate(args[r1].input) /\ exit_code[r1] = 1
       /\ Exported(r2)

----------------------------------------------------------------------------
(* C14 *)

Printed(r, line) == \E i \in 1..Len(stdout[r]) : stdout[r][i] = line

\* C14 (CLI report, as claimed): a run that ended with exit code 0 has written
\* its .json and .md exports and has printed the text "Verification: True".
C14_CliReport ==
    \A r \in Runs :
       exit_code[r] = 0 =>
          /\ <<result[r].run_id, ".json">> \in DOMAIN files
          /\ <<result[r].run_id, ".md">> \in DOMAIN files
          /\ Printed(r, "Verification: True")

----------------------------------------------------------------------------
(* C15 *)

\* C15 (REJECTED is unreachable): in the program as shipped, every
\* verification step run_once performs yields true, and the "ZK proof
\* verification failed" RuntimeError is never raised.
C15_RejectedUnreachable ==
    \A r \in Runs :
       /\ Called(r, "verify_zk_proof") => verified[r]
       /\ ~Called(r, "RuntimeError")
       /\ (pc[r] = "except" \/ exit_code[r] = 1) => ~Called(r, "verify_zk_proof")

\* Both runs have passed verification, one on a Real result and one on a
\* degraded result, and ended with exit code 0.
C15_Witness ==
    \E r1, r2 \in Runs :
       /\ exit_code[r1] = 0 /\ exit_code[r2] = 0
       /\ Called(r1, "verify_zk_proof") /\ Called(r2, "verify_zk_proof")
       /\ result[r1].compute_result.fhe_enabled
       /\ result[r2].benchmark.compute_mode = "fallback-error"

----------------------------------------------------------------------------
(* C16 *)

\* C16 (audit metadata matches the variant, as claimed): in every returned
\* RunResult the FHE primitive is listed and fhe_parameters are the real
\* scheme parameters exactly when compute_result.fhe_enabled is true, which is
\* exactly when compute_mode is the homomorphic mode; otherwise only the hash
\* primitive is listed and fhe_parameters is {"enabled": false}.
C16_AuditMetadataMatchesVariant ==
    \A r \in Runs :
       Returned(r) =>
          LET res == result[r]
              real == res.compute_result.fhe_enabled
          IN
          /\ real <=> (res.benchmark.compute_mode = "fhe-seal-homomorphic-encryption")
          /\ IF real
             THEN /\ res.proof.crypto_primitives_used = FhePrimitives
                  /\ res.proof.fhe_parameters = get_parameters
             ELSE /\ res.proof.crypto_primitives_used = HashOnlyPrimitives
                  /\ res.proof.fhe_parameters = DisabledParams

====
